---- MODULE Spec2Model ----
(***************************************************************************)
(* Model of the uBPF x86-64 JIT (src/vm/ubpf_jit_x86_64.c, System V build). *)
(*                                                                         *)
(* The translator is modelled at the level of the bytes it appends to the  *)
(* output buffer; the generated function is then run by a small x86-64     *)
(* decoder/executor working on those bytes.  Three specifications share    *)
(* the variables:                                                          *)
(*   Spec          ubpf_compile on a VM, then calls of the jitted function *)
(*   SpecTranslate direct calls of ubpf_translate with a caller's buffer   *)
(*   SpecRegMap    calls of the test hook ubpf_set_register_offset         *)
(*                                                                         *)
(* 64-bit machine words are kept as mathematical integers in their signed  *)
(* (two's complement) reading; every run of the model keeps operands in    *)
(* 0 .. 2^31-1 (plus the constant -1), where 32-bit truncation is the      *)
(* identity.  Lo32 is undefined outside that range, which TLC reports.     *)
(***************************************************************************)
EXTENDS Integers, Sequences, FiniteSets, TLC

VARIABLES register_map, vm, pc, st, i, tr, cm, mappings, cpu, hook

vars == <<register_map, vm, pc, st, i, tr, cm, mappings, cpu, hook>>

(***************************************************************************)
(* Bounds of the model.                                                    *)
(***************************************************************************)
MaxInsts == 2
MaxCompiles == 2
MaxRuns == 1
MaxCalls == 2

(***************************************************************************)
(* Program constants.                                                      *)
(***************************************************************************)
TARGET_PC_EXIT == -1
TARGET_PC_DIV_BY_ZERO == -2
REGISTER_MAP_SIZE == 11
UBPF_STACK_SIZE == 512
JitBufferSize == 65536

RAX == 0
RCX == 1
RDX == 2
RBX == 3
RSP == 4
RBP == 5
RSI == 6
RDI == 7
R8 == 8
R9 == 9
R10 == 10
R11 == 11
R13 == 13
R14 == 14
R15 == 15

RCX_ALT == R9
platform_nonvolatile_registers == <<RBP, RBX, R13, R14, R15>>
platform_parameter_registers == <<RDI, RSI, RDX, RCX, R8, R9>>
InitialRegisterMap == <<RAX, RDI, RSI, RDX, R9, R8, RBX, R13, R14, R15, RBP>>

EBPF_CLS_ALU64 == 7

\* The eBPF opcode bytes named by the case labels of translate.
OP == [ADD_IMM |-> 4, ADD_REG |-> 12, SUB_IMM |-> 20, SUB_REG |-> 28,
       MUL_IMM |-> 36, MUL_REG |-> 44, DIV_IMM |-> 52, DIV_REG |-> 60,
       OR_IMM |-> 68, OR_REG |-> 76, AND_IMM |-> 84, AND_REG |-> 92,
       LSH_IMM |-> 100, LSH_REG |-> 108, RSH_IMM |-> 116, RSH_REG |-> 124,
       NEG |-> 132, MOD_IMM |-> 148, MOD_REG |-> 156, XOR_IMM |-> 164,
       XOR_REG |-> 172, MOV_IMM |-> 180, MOV_REG |-> 188, ARSH_IMM |-> 196,
       ARSH_REG |-> 204, LE |-> 212, BE |-> 220,
       ADD64_IMM |-> 7, ADD64_REG |-> 15, SUB64_IMM |-> 23, SUB64_REG |-> 31,
       MUL64_IMM |-> 39, MUL64_REG |-> 47, DIV64_IMM |-> 55, DIV64_REG |-> 63,
       OR64_IMM |-> 71, OR64_REG |-> 79, AND64_IMM |-> 87, AND64_REG |-> 95,
       LSH64_IMM |-> 103, LSH64_REG |-> 111, RSH64_IMM |-> 119,
       RSH64_REG |-> 127, NEG64 |-> 135, MOD64_IMM |-> 151, MOD64_REG |-> 159,
       XOR64_IMM |-> 167, XOR64_REG |-> 175, MOV64_IMM |-> 183,
       MOV64_REG |-> 191, ARSH64_IMM |-> 199, ARSH64_REG |-> 207,
       JA |-> 5, JEQ_IMM |-> 21, JEQ_REG |-> 29, JGT_IMM |-> 37,
       JGT_REG |-> 45, JGE_IMM |-> 53, JGE_REG |-> 61, JSET_IMM |-> 69,
       JSET_REG |-> 77, JNE_IMM |-> 85, JNE_REG |-> 93, JSGT_IMM |-> 101,
       JSGT_REG |-> 109, JSGE_IMM |-> 117, JSGE_REG |-> 125, CALL |-> 133,
       EXIT |-> 149, JLT_IMM |-> 165, JLT_REG |-> 173, JLE_IMM |-> 181,
       JLE_REG |-> 189, JSLT_IMM |-> 197, JSLT_REG |-> 205, JSLE_IMM |-> 213,
       JSLE_REG |-> 221,
       LDXW |-> 97, LDXH |-> 105, LDXB |-> 113, LDXDW |-> 121,
       STW |-> 98, STH |-> 106, STB |-> 114, STDW |-> 122,
       STXW |-> 99, STXH |-> 107, STXB |-> 115, STXDW |-> 123,
       LDDW |-> 24]

\* Operand sizes of loads and stores.
S8 == 0
S16 == 1
S32 == 2
S64 == 3

(***************************************************************************)
(* Addresses of the host objects the generated code refers to.             *)
(***************************************************************************)
StderrAddr == 1 * 4096
DivByZeroFmtAddr == 2 * 4096
ErrorPrintfAddr == 3 * 4096
ExtFuncBase == 4 * 4096
ext_funcs(k) == ExtFuncBase + 16 * k
RetAddr == 5 * 4096
EntryRsp == 8 * 4096

(***************************************************************************)
(* Bytes and immediates.                                                   *)
(***************************************************************************)
\* the four little-endian bytes of a 32-bit value (two's complement)
Le32(v) == <<v % 256, (v \div 256) % 256, (v \div 65536) % 256,
             (v \div 16777216) % 256>>

\* the signed value of four little-endian bytes
Dec32(b0, b1, b2, b3) ==
    b0 + 256 * b1 + 65536 * b2 + 16777216 * (IF b3 >= 128 THEN b3 - 256 ELSE b3)

\* a 64-bit immediate as its two 32-bit halves
SignExtend(v) == [lo |-> v, hi |-> IF v < 0 THEN -1 ELSE 0]
Halves(lo, hi) == [lo |-> lo, hi |-> hi]

\* the low 32 bits of a machine word, zero-extended
Lo32(v) == IF v >= 0 THEN v ELSE CHOOSE x \in {} : TRUE

Bit3(r) == (r \div 8) % 2
Low3(r) == r % 8

(***************************************************************************)
(* The encoder (ubpf_jit_x86_64.h): every emitter maps a jit_state to the  *)
(* jit_state after the bytes were appended.                                *)
(***************************************************************************)
emit_bytes(s, data) ==
    IF s.offset + Len(data) > s.size
    THEN [s EXCEPT !.offset = s.size]
    ELSE [s EXCEPT !.buf = @ \o data,
                   !.offset = @ + Len(data)]

emit1(s, x) == emit_bytes(s, <<x % 256>>)
emit2(s, x) == emit_bytes(s, <<x % 256, (x \div 256) % 256>>)
emit4(s, x) == emit_bytes(s, Le32(x))
emit8(s, x) == emit_bytes(s, Le32(x.lo) \o Le32(x.hi))

emit_jump_offset(s, target_pc) ==
    emit4([s EXCEPT !.jumps = Append(@, [offset_loc |-> s.offset,
                                         target_pc |-> target_pc])], 0)

emit_modrm(s, mod, r, m) == emit1(s, mod + 8 * Low3(r) + Low3(m))

emit_modrm_reg2reg(s, r, m) == emit_modrm(s, 192, r, m)

emit_modrm_and_displacement(s, r, m, d) ==
    IF d = 0 /\ Low3(m) # RBP THEN emit_modrm(s, 0, r, m)
    ELSE IF d >= -128 /\ d <= 127 THEN emit1(emit_modrm(s, 64, r, m), d)
    ELSE emit4(emit_modrm(s, 128, r, m), d)

emit_rex(s, w, r, x, b) == emit1(s, 64 + 8 * w + 4 * r + 2 * x + b)

emit_basic_rex(s, w, src, dst) ==
    IF w = 1 \/ Bit3(src) = 1 \/ Bit3(dst) = 1
    THEN emit_rex(s, w, Bit3(src), 0, Bit3(dst))
    ELSE s

emit_push(s, r) == emit1(emit_basic_rex(s, 0, 0, r), 80 + Low3(r))

emit_pop(s, r) == emit1(emit_basic_rex(s, 0, 0, r), 88 + Low3(r))

emit_alu32(s, op, src, dst) ==
    emit_modrm_reg2reg(emit1(emit_basic_rex(s, 0, src, dst), op), src, dst)

emit_alu32_imm32(s, op, src, dst, imm) == emit4(emit_alu32(s, op, src, dst), imm)

emit_alu32_imm8(s, op, src, dst, imm) == emit1(emit_alu32(s, op, src, dst), imm)

emit_alu64(s, op, src, dst) ==
    emit_modrm_reg2reg(emit1(emit_basic_rex(s, 1, src, dst), op), src, dst)

emit_alu64_imm32(s, op, src, dst, imm) == emit4(emit_alu64(s, op, src, dst), imm)

emit_alu64_imm8(s, op, src, dst, imm) == emit1(emit_alu64(s, op, src, dst), imm)

emit_mov(s, src, dst) == emit_alu64(s, 137, src, dst)

emit_cmp_imm32(s, dst, imm) == emit_alu64_imm32(s, 129, 7, dst, imm)

emit_cmp(s, src, dst) == emit_alu64(s, 57, src, dst)

emit_jcc(s, code, target_pc) == emit_jump_offset(emit1(emit1(s, 15), code), target_pc)

emit_jmp(s, target_pc) == emit_jump_offset(emit1(s, 233), target_pc)

\* movabs $imm64, dst
emit_load_imm(s, dst, imm) ==
    emit8(emit1(emit_basic_rex(s, 1, 0, dst), 184 + Low3(dst)), imm)

\* call rel32; the code is placed at address 0
emit_call(s, target) == emit4(emit1(s, 232), target - (s.offset + 5))

emit_load(s, size, src, dst, offset) ==
    LET Opcode(t) == IF size = S8 THEN emit1(emit1(t, 15), 182)
                     ELSE IF size = S16 THEN emit1(emit1(t, 15), 183)
                     ELSE emit1(t, 139)
    IN  emit_modrm_and_displacement(
          Opcode(emit_basic_rex(s, IF size = S64 THEN 1 ELSE 0, dst, src)),
          dst, src, offset)

emit_store_imm32(s, size, dst, offset, imm) ==
    LET Prefix16(t) == IF size = S16 THEN emit1(t, 102) ELSE t
        Immediate(t) == IF size = S32 \/ size = S64 THEN emit4(t, imm)
                        ELSE IF size = S16 THEN emit2(t, imm)
                        ELSE emit1(t, imm)
    IN  Immediate(emit_modrm_and_displacement(
                    emit1(emit_basic_rex(Prefix16(s), IF size = S64 THEN 1 ELSE 0,
                                         0, dst),
                          IF size = S8 THEN 198 ELSE 199),
                    0, dst, offset))

emit_store(s, size, src, dst, offset) ==
    LET Prefix16(t) == IF size = S16 THEN emit1(t, 102) ELSE t
        rexw == IF size = S64 THEN 1 ELSE 0
        Rex(t) == IF rexw = 1 \/ Bit3(src) = 1 \/ Bit3(dst) = 1 \/ size = S8
                  THEN emit_rex(t, rexw, Bit3(src), 0, Bit3(dst))
                  ELSE t
    IN  emit_modrm_and_displacement(
          emit1(Rex(Prefix16(s)), IF size = S8 THEN 136 ELSE 137),
          src, dst, offset)

(***************************************************************************)
(* The register map.                                                       *)
(***************************************************************************)
map_register(r) == register_map[(r % REGISTER_MAP_SIZE) + 1]

(***************************************************************************)
(* muldivmod: the x86 sequence of one MUL, DIV or MOD instruction.         *)
(***************************************************************************)
AluOp(opcode) == (opcode \div 16) * 16

muldivmod(s, ebpf_pc, opcode, src, dst, imm) ==
    LET mul == AluOp(opcode) = AluOp(OP.MUL_IMM)
        div == AluOp(opcode) = AluOp(OP.DIV_IMM)
        mod == AluOp(opcode) = AluOp(OP.MOD_IMM)
        is64 == (opcode % 8) = EBPF_CLS_ALU64
        \* lines 516-528
        TestSrc(t) == IF is64 THEN emit_alu64(t, 133, src, src)
                              ELSE emit_alu32(t, 133, src, src)
        ZeroCheck(t) ==
            IF div \/ mod
            THEN emit_jcc(TestSrc(emit_load_imm(t, RCX, SignExtend(ebpf_pc))),
                          132, TARGET_PC_DIV_BY_ZERO)
            ELSE t
        \* lines 530-535
        PushRax(t) == IF dst # RAX THEN emit_push(t, RAX) ELSE t
        PushRdx(t) == IF dst # RDX THEN emit_push(t, RDX) ELSE t
        \* lines 536-540
        LoadOperand(t) == IF imm # 0 THEN emit_load_imm(t, RCX, SignExtend(imm))
                                     ELSE emit_mov(t, src, RCX)
        \* lines 544-551
        ClearRdx(t) == IF div \/ mod THEN emit_alu32(t, 49, RDX, RDX) ELSE t
        RexW(t) == IF is64 THEN emit_rex(t, 1, 0, 0, 0) ELSE t
        \* lines 556-567
        ModResult(t) == IF mod THEN emit_mov(t, RDX, dst) ELSE t
        PopRdx(t) == IF dst # RDX THEN emit_pop(ModResult(t), RDX) ELSE t
        MulDivResult(t) == IF div \/ mul THEN emit_mov(t, RAX, dst) ELSE t
        PopRax(t) == IF dst # RAX THEN emit_pop(MulDivResult(t), RAX) ELSE t
    IN  PopRax(PopRdx(
          emit_alu32(
            RexW(ClearRdx(emit_mov(LoadOperand(PushRdx(PushRax(ZeroCheck(s)))),
                                   dst, RAX))),
            247, IF mul THEN 4 ELSE 6, RCX)))

(***************************************************************************)
(* translate: prologue, one loop iteration, epilogue and trap handler.     *)
(***************************************************************************)
RECURSIVE PushNonvolatile(_, _)
PushNonvolatile(s, k) ==
    IF k > Len(platform_nonvolatile_registers) THEN s
    ELSE PushNonvolatile(emit_push(s, platform_nonvolatile_registers[k]), k + 1)

RECURSIVE PopNonvolatile(_, _)
PopNonvolatile(s, k) ==
    IF k >= Len(platform_nonvolatile_registers) THEN s
    ELSE PopNonvolatile(
           emit_pop(s, platform_nonvolatile_registers[
                          Len(platform_nonvolatile_registers) - k]), k + 1)

EmitPrologue(s) ==
    LET MoveParameter(t) ==
            IF map_register(1) # platform_parameter_registers[1]
            THEN emit_mov(t, platform_parameter_registers[1], map_register(1))
            ELSE t
    IN  emit_alu64_imm32(
          emit_mov(MoveParameter(PushNonvolatile(s, 1)), RSP, map_register(10)),
          129, 5, RSP, UBPF_STACK_SIZE)

\* an epilogue that leaves the eBPF stack area on the host stack
EmitEpilogueKeepsFrame(s) ==
    emit1(PopNonvolatile([s EXCEPT !.exit_loc = s.offset], 0), 195)

EmitEpilogue(s) ==
    LET MoveResult(t) ==
            IF map_register(0) # RAX THEN emit_mov(t, map_register(0), RAX) ELSE t
    IN  emit1(PopNonvolatile(
                emit_alu64_imm32(MoveResult([s EXCEPT !.exit_loc = s.offset]),
                                 129, 0, RSP, UBPF_STACK_SIZE), 0), 195)

EmitDivByZeroHandler(s) ==
    LET s0 == [s EXCEPT !.div_by_zero_loc = s.offset]
        s1 == emit_mov(s0, RCX, platform_parameter_registers[3])
        s2 == emit_load_imm(s1, platform_parameter_registers[1],
                            SignExtend(StderrAddr))
        s3 == emit_load_imm(s2, platform_parameter_registers[2],
                            SignExtend(DivByZeroFmtAddr))
        s4 == emit_call(s3, ErrorPrintfAddr)
        s5 == emit_load_imm(s4, map_register(0), SignExtend(-1))
    IN  emit_jmp(s5, TARGET_PC_EXIT)

\* The body of the switch for the instruction at index k.  The result holds
\* the jit_state, the loop index after the case (LDDW consumes a second
\* slot) and whether the default case was taken.
TranslateCase(s, insts, num_insts, unwind_index, k) ==
    LET inst == insts[k + 1]
        dst == map_register(inst.dst)
        src == map_register(inst.src)
        target_pc == k + inst.offset + 1
        imm == inst.imm
        off == inst.offset
        o == inst.opcode
        Done(s1) == [s |-> s1, i |-> k, unknown |-> FALSE]
    IN
    CASE o = OP.ADD_IMM -> Done(emit_alu32_imm32(s, 129, 0, dst, imm))
      [] o = OP.ADD_REG -> Done(emit_alu32(s, 1, src, dst))
      [] o = OP.SUB_IMM -> Done(emit_alu32_imm32(s, 129, 5, dst, imm))
      [] o = OP.SUB_REG -> Done(emit_alu32(s, 41, src, dst))
      [] o \in {OP.MUL_IMM, OP.MUL_REG, OP.DIV_IMM, OP.DIV_REG, OP.MOD_IMM,
                OP.MOD_REG} -> Done(muldivmod(s, k, o, src, dst, imm))
      [] o = OP.OR_IMM -> Done(emit_alu32_imm32(s, 129, 1, dst, imm))
      [] o = OP.OR_REG -> Done(emit_alu32(s, 9, src, dst))
      [] o = OP.AND_IMM -> Done(emit_alu32_imm32(s, 129, 4, dst, imm))
      [] o = OP.AND_REG -> Done(emit_alu32(s, 33, src, dst))
      [] o = OP.LSH_IMM -> Done(emit_alu32_imm8(s, 193, 4, dst, imm))
      [] o = OP.LSH_REG -> Done(emit_alu32(emit_mov(s, src, RCX), 211, 4, dst))
      [] o = OP.RSH_IMM -> Done(emit_alu32_imm8(s, 193, 5, dst, imm))
      [] o = OP.RSH_REG -> Done(emit_alu32(emit_mov(s, src, RCX), 211, 5, dst))
      [] o = OP.NEG -> Done(emit_alu32(s, 247, 3, dst))
      [] o = OP.XOR_IMM -> Done(emit_alu32_imm32(s, 129, 6, dst, imm))
      [] o = OP.XOR_REG -> Done(emit_alu32(s, 49, src, dst))
      [] o = OP.MOV_IMM -> Done(emit_alu32_imm32(s, 199, 0, dst, imm))
      [] o = OP.MOV_REG -> Done(emit_mov(s, src, dst))
      [] o = OP.ARSH_IMM -> Done(emit_alu32_imm8(s, 193, 7, dst, imm))
      [] o = OP.ARSH_REG -> Done(emit_alu32(emit_mov(s, src, RCX), 211, 7, dst))
      [] o = OP.LE -> Done(s)
      [] o = OP.BE ->
            Done(IF imm = 16
                 THEN emit_alu32_imm32(
                        emit_alu32_imm8(emit1(s, 102), 193, 0, dst, 8),
                        129, 4, dst, 65535)
                 ELSE IF imm = 32 \/ imm = 64
                 THEN emit1(emit1(emit_basic_rex(s, IF imm = 64 THEN 1 ELSE 0,
                                                 0, dst), 15),
                            200 + Low3(dst))
                 ELSE s)
      [] o = OP.ADD64_IMM -> Done(emit_alu64_imm32(s, 129, 0, dst, imm))
      [] o = OP.ADD64_REG -> Done(emit_alu64(s, 1, src, dst))
      [] o = OP.SUB64_IMM -> Done(emit_alu64_imm32(s, 129, 5, dst, imm))
      [] o = OP.SUB64_REG -> Done(emit_alu64(s, 41, src, dst))
      [] o \in {OP.MUL64_IMM, OP.MUL64_REG, OP.DIV64_IMM, OP.DIV64_REG,
                OP.MOD64_IMM, OP.MOD64_REG} ->
            Done(muldivmod(s, k, o, src, dst, imm))
      [] o = OP.OR64_IMM -> Done(emit_alu64_imm32(s, 129, 1, dst, imm))
      [] o = OP.OR64_REG -> Done(emit_alu64(s, 9, src, dst))
      [] o = OP.AND64_IMM -> Done(emit_alu64_imm32(s, 129, 4, dst, imm))
      [] o = OP.AND64_REG -> Done(emit_alu64(s, 33, src, dst))
      [] o = OP.LSH64_IMM -> Done(emit_alu64_imm8(s, 193, 4, dst, imm))
      [] o = OP.LSH64_REG -> Done(emit_alu64(emit_mov(s, src, RCX), 211, 4, dst))
      [] o = OP.RSH64_IMM -> Done(emit_alu64_imm8(s, 193, 5, dst, imm))
      [] o = OP.RSH64_REG -> Done(emit_alu64(emit_mov(s, src, RCX), 211, 5, dst))
      [] o = OP.NEG64 -> Done(emit_alu64(s, 247, 3, dst))
      [] o = OP.XOR64_IMM -> Done(emit_alu64_imm32(s, 129, 6, dst, imm))
      [] o = OP.XOR64_REG -> Done(emit_alu64(s, 49, src, dst))
      [] o = OP.MOV64_IMM -> Done(emit_load_imm(s, dst, SignExtend(imm)))
      [] o = OP.MOV64_REG -> Done(emit_mov(s, src, dst))
      [] o = OP.ARSH64_IMM -> Done(emit_alu64_imm8(s, 193, 7, dst, imm))
      [] o = OP.ARSH64_REG -> Done(emit_alu64(emit_mov(s, src, RCX), 211, 7, dst))
      [] o = OP.JA -> Done(emit_jmp(s, target_pc))
      [] o = OP.JEQ_IMM -> Done(emit_jcc(emit_cmp_imm32(s, dst, imm), 132, target_pc))
      [] o = OP.JEQ_REG -> Done(emit_jcc(emit_cmp(s, src, dst), 132, target_pc))
      [] o = OP.JGT_IMM -> Done(emit_jcc(emit_cmp_imm32(s, dst, imm), 135, target_pc))
      [] o = OP.JGT_REG -> Done(emit_jcc(emit_cmp(s, src, dst), 135, target_pc))
      [] o = OP.JGE_IMM -> Done(emit_jcc(emit_cmp_imm32(s, dst, imm), 131, target_pc))
      [] o = OP.JGE_REG -> Done(emit_jcc(emit_cmp(s, src, dst), 131, target_pc))
      [] o = OP.JLT_IMM -> Done(emit_jcc(emit_cmp_imm32(s, dst, imm), 130, target_pc))
      [] o = OP.JLT_REG -> Done(emit_jcc(emit_cmp(s, src, dst), 130, target_pc))
      [] o = OP.JLE_IMM -> Done(emit_jcc(emit_cmp_imm32(s, dst, imm), 134, target_pc))
      [] o = OP.JLE_REG -> Done(emit_jcc(emit_cmp(s, src, dst), 134, target_pc))
      [] o = OP.JSET_IMM ->
            Done(emit_jcc(emit_alu64_imm32(s, 247, 0, dst, imm), 133, target_pc))
      [] o = OP.JSET_REG -> Done(emit_jcc(emit_alu64(s, 133, src, dst), 133, target_pc))
      [] o = OP.JNE_IMM -> Done(emit_jcc(emit_cmp_imm32(s, dst, imm), 133, target_pc))
      [] o = OP.JNE_REG -> Done(emit_jcc(emit_cmp(s, src, dst), 133, target_pc))
      [] o = OP.JSGT_IMM -> Done(emit_jcc(emit_cmp_imm32(s, dst, imm), 143, target_pc))
      [] o = OP.JSGT_REG -> Done(emit_jcc(emit_cmp(s, src, dst), 143, target_pc))
      [] o = OP.JSGE_IMM -> Done(emit_jcc(emit_cmp_imm32(s, dst, imm), 141, target_pc))
      [] o = OP.JSGE_REG -> Done(emit_jcc(emit_cmp(s, src, dst), 141, target_pc))
      [] o = OP.JSLT_IMM -> Done(emit_jcc(emit_cmp_imm32(s, dst, imm), 140, target_pc))
      [] o = OP.JSLT_REG -> Done(emit_jcc(emit_cmp(s, src, dst), 140, target_pc))
      [] o = OP.JSLE_IMM -> Done(emit_jcc(emit_cmp_imm32(s, dst, imm), 142, target_pc))
      [] o = OP.JSLE_REG -> Done(emit_jcc(emit_cmp(s, src, dst), 142, target_pc))
      [] o = OP.CALL ->
            LET Unwind(t) ==
                    IF imm = unwind_index
                    THEN emit_jcc(emit_cmp_imm32(t, map_register(0), 0),
                                  132, TARGET_PC_EXIT)
                    ELSE t
            IN  Done(Unwind(emit_call(emit_mov(s, RCX_ALT, RCX), ext_funcs(imm))))
      [] o = OP.EXIT ->
            Done(IF k # num_insts - 1 THEN emit_jmp(s, TARGET_PC_EXIT) ELSE s)
      [] o = OP.LDXW -> Done(emit_load(s, S32, src, dst, off))
      [] o = OP.LDXH -> Done(emit_load(s, S16, src, dst, off))
      [] o = OP.LDXB -> Done(emit_load(s, S8, src, dst, off))
      [] o = OP.LDXDW -> Done(emit_load(s, S64, src, dst, off))
      [] o = OP.STW -> Done(emit_store_imm32(s, S32, dst, off, imm))
      [] o = OP.STH -> Done(emit_store_imm32(s, S16, dst, off, imm))
      [] o = OP.STB -> Done(emit_store_imm32(s, S8, dst, off, imm))
      [] o = OP.STDW -> Done(emit_store_imm32(s, S64, dst, off, imm))
      [] o = OP.STXW -> Done(emit_store(s, S32, src, dst, off))
      [] o = OP.STXH -> Done(emit_store(s, S16, src, dst, off))
      [] o = OP.STXB -> Done(emit_store(s, S8, src, dst, off))
      [] o = OP.STXDW -> Done(emit_store(s, S64, src, dst, off))
      [] o = OP.LDDW ->
            [s |-> emit_load_imm(s, dst, Halves(imm, insts[k + 2].imm)),
             i |-> k + 1, unknown |-> FALSE]
      [] OTHER -> [s |-> s, i |-> k, unknown |-> TRUE]

\* an iteration that does not record pc_locs[k]
TranslateInstNoPcLoc(s, insts, num_insts, unwind_index, k) ==
    TranslateCase(s, insts, num_insts, unwind_index, k)

\* One iteration of the loop of translate: record pc_locs[k], then the switch.
TranslateInst(s, insts, num_insts, unwind_index, k) ==
    TranslateCase([s EXCEPT !.pc_locs[k] = s.offset],
                  insts, num_insts, unwind_index, k)

(***************************************************************************)
(* resolve_jumps.                                                          *)
(***************************************************************************)
\* memcpy of data to buf[pos ..]: bytes never written before read as the 0 of
\* the zeroed buffer; a byte past the capacity is a write outside the buffer.
RECURSIVE StoreBytes(_, _, _)
StoreBytes(s, pos, data) ==
    IF data = <<>> THEN s
    ELSE IF pos >= s.size THEN [s EXCEPT !.oob = TRUE]
    ELSE LET padded == IF Len(s.buf) > pos THEN s.buf
                       ELSE s.buf \o [x \in 1..(pos + 1 - Len(s.buf)) |-> 0]
         IN  StoreBytes([s EXCEPT !.buf = [padded EXCEPT ![pos + 1] = Head(data)]],
                        pos + 1, Tail(data))

TargetLoc(s, jump) ==
    IF jump.target_pc = TARGET_PC_EXIT THEN s.exit_loc
    ELSE IF jump.target_pc = TARGET_PC_DIV_BY_ZERO THEN s.div_by_zero_loc
    ELSE s.pc_locs[jump.target_pc]

RECURSIVE ResolveFrom(_, _)
ResolveFrom(s, k) ==
    IF k > Len(s.jumps) THEN s
    ELSE LET jump == s.jumps[k]
             rel == TargetLoc(s, jump) - (jump.offset_loc + 4)
         IN  ResolveFrom(StoreBytes(s, jump.offset_loc, Le32(rel)), k + 1)

resolve_jumps(s) == ResolveFrom(s, 1)

(***************************************************************************)
(* Programs.                                                               *)
(***************************************************************************)
Inst(opcode, dst, src, offset, imm) ==
    [opcode |-> opcode, dst |-> dst, src |-> src, offset |-> offset, imm |-> imm]

\* the second slot of LDDW carries only the high half of the immediate
SecondSlot(imm) == Inst(0, 0, 0, 0, imm)

MulDivModOps == {OP.MUL_IMM, OP.MUL_REG, OP.DIV_IMM, OP.DIV_REG, OP.MOD_IMM,
                 OP.MOD_REG, OP.MUL64_IMM, OP.MUL64_REG, OP.DIV64_IMM,
                 OP.DIV64_REG, OP.MOD64_IMM, OP.MOD64_REG}

IsImmForm(opcode) == (opcode \div 8) % 2 = 0
IsDivMod(opcode) ==
    opcode \in MulDivModOps /\ AluOp(opcode) # AluOp(OP.MUL_IMM)

JumpOps == {OP.JA, OP.JEQ_IMM, OP.JEQ_REG, OP.JGT_IMM, OP.JGT_REG, OP.JGE_IMM,
            OP.JGE_REG, OP.JSET_IMM, OP.JSET_REG, OP.JNE_IMM, OP.JNE_REG,
            OP.JSGT_IMM, OP.JSGT_REG, OP.JSGE_IMM, OP.JSGE_REG, OP.JLT_IMM,
            OP.JLT_REG, OP.JLE_IMM, OP.JLE_REG, OP.JSLT_IMM, OP.JSLT_REG,
            OP.JSLE_IMM, OP.JSLE_REG}

UnknownOpcode == 256 - 1

\* the slots that start an instruction (every slot but the second of an LDDW)
RECURSIVE StartsFrom(_, _)
StartsFrom(insts, k) ==
    IF k >= Len(insts) THEN {}
    ELSE {k} \cup StartsFrom(insts, IF insts[k + 1].opcode = OP.LDDW
                                    THEN k + 2 ELSE k + 1)

InstStarts(insts) == StartsFrom(insts, 0)

\* what the loader's verifier guarantees the translator about control flow:
\* every LDDW has its second slot and every branch targets an instruction
WellFormed(insts) ==
    /\ \A k \in InstStarts(insts) :
          insts[k + 1].opcode = OP.LDDW => k + 1 < Len(insts)
    /\ \A k \in InstStarts(insts) :
          insts[k + 1].opcode \in JumpOps =>
             (k + insts[k + 1].offset + 1) \in InstStarts(insts)

RECURSIVE Concat(_)
Concat(units) == IF units = <<>> THEN <<>> ELSE Head(units) \o Concat(Tail(units))

ProgramsOver(units, n) ==
    {p \in {Concat(us) : us \in UNION {[1..m -> units] : m \in 1..n}} :
        WellFormed(p)}

\* programs that are compiled and run
MulDivModInsts ==
    {Inst(o, d, s, 0, m) : o \in MulDivModOps, d \in {0, 3, 6}, s \in {0, 2, 3},
                           m \in {0, 2}}

RunUnits ==
    { <<Inst(OP.JA, 0, 0, -2, 0)>>,
      <<Inst(OP.JEQ_IMM, 2, 0, 0, 0)>>,
      <<Inst(OP.CALL, 0, 0, 0, 0)>>,
      <<Inst(OP.EXIT, 0, 0, 0, 0)>>,
      <<Inst(OP.DIV64_REG, 0, 2, 0, 0)>>,
      <<Inst(OP.LDDW, 6, 0, 0, 3), SecondSlot(0)>>,
      <<Inst(UnknownOpcode, 0, 0, 0, 0)>> }

RunPrograms ==
    {<<m, Inst(OP.EXIT, 0, 0, 0, 0)>> : m \in MulDivModInsts}
    \cup ProgramsOver(RunUnits, MaxInsts)

\* programs that are only translated
TranslateUnits ==
    { <<Inst(OP.LE, 1, 0, 0, 32)>>,
      <<Inst(OP.BE, 1, 0, 0, 16)>>,
      <<Inst(OP.BE, 7, 0, 0, 64)>>,
      <<Inst(OP.BE, 1, 0, 0, 8)>>,
      <<Inst(OP.MOV_REG, 1, 1, 0, 0)>>,
      <<Inst(OP.ADD_IMM, 2, 0, 0, -1)>>,
      <<Inst(OP.LDXW, 0, 1, 0, 0)>>,
      <<Inst(OP.STXDW, 10, 6, -8, 0)>>,
      <<Inst(OP.JA, 0, 0, -2, 0)>>,
      <<Inst(OP.JNE_REG, 1, 2, -1, 0)>>,
      <<Inst(OP.JSET_IMM, 1, 0, 0, 1)>>,
      <<Inst(OP.CALL, 0, 0, 0, 0)>>,
      <<Inst(OP.EXIT, 0, 0, 0, 0)>>,
      <<Inst(OP.MOD_IMM, 3, 0, 0, 0)>>,
      <<Inst(OP.LDDW, 0, 0, 0, -1), SecondSlot(1)>>,
      <<Inst(UnknownOpcode, 0, 0, 0, 0)>> }

TranslatePrograms == ProgramsOver(TranslateUnits, MaxInsts)

\* capacities of the caller's buffer
Capacities == {64, 80, 96, JitBufferSize}

(***************************************************************************)
(* Register maps the hook can have left behind before a translation.       *)
(***************************************************************************)
Cycle(map, x) ==
    [k \in 1..REGISTER_MAP_SIZE |-> map[((k - 1 + x) % REGISTER_MAP_SIZE) + 1]]

RegisterMaps == {InitialRegisterMap, Cycle(InitialRegisterMap, 1)}

(***************************************************************************)
(* State of a call of ubpf_translate and of ubpf_compile.                  *)
(***************************************************************************)
\* struct jit_state after lines 600-605; pc_locs is zeroed by calloc
NewJitState(size, num_insts) ==
    [buf |-> <<>>, offset |-> 0, size |-> size,
     pc_locs |-> [k \in 0..num_insts |-> 0], jumps |-> <<>>,
     exit_loc |-> 0, div_by_zero_loc |-> 0, oob |-> FALSE]

NoTranslate ==
    [caller |-> "none", size_in |-> 0, size |-> 0, result |-> 0,
     errmsg |-> <<>>, resolved |-> FALSE, returned |-> FALSE]

NoCompile ==
    [buffer |-> "none", jitted |-> 0, jitted_size |-> 0, ret |-> 0,
     errmsg |-> <<>>, returned |-> FALSE, ncalls |-> 0, n_calloc |-> 0,
     n_free |-> 0, n_translate |-> 0, n_mmap |-> 0, n_mprotect |-> 0,
     n_munmap |-> 0, n_bad_munmap |-> 0]

MAP_FAILED == -1

CpuOff ==
    [status |-> "off", regs |-> [r \in 0..15 |-> 0], mem |-> <<>>, rip |-> 0,
     zf |-> FALSE, stderr_lines |-> 0, result |-> 0, nruns |-> 0,
     cur |-> [k |-> -3, loc |-> -1, regs |-> [r \in 0..15 |-> 0]],
     done |-> [k |-> -3, loc |-> -1, regs |-> [r \in 0..15 |-> 0]],
     traps |-> 0, entry |-> [r \in 0..15 |-> 0]]

NoHook == [calls |-> 0, oob |-> FALSE]

(***************************************************************************)
(* ubpf_translate.  The jit_state is kept after the call returns, as the   *)
(* record of what the call computed; the buffer the caller gets back is    *)
(* st.buf.                                                                 *)
(***************************************************************************)
\* lines 597-605: a direct call with the caller's buffer of capacity size
ubpf_translate(size) ==
    /\ pc = "idle"
    /\ vm.loaded
    /\ st' = NewJitState(size, vm.num_insts)
    /\ tr' = [NoTranslate EXCEPT !.caller = "direct", !.size_in = size,
                                 !.size = size, !.result = -1]
    /\ i' = 0
    /\ pc' = "prologue"
    /\ UNCHANGED <<register_map, vm, cm, mappings, cpu, hook>>

\* lines 133-148
translate_prologue ==
    /\ pc = "prologue"
    /\ st' = EmitPrologue(st)
    /\ i' = 0
    /\ pc' = "loop"
    /\ UNCHANGED <<register_map, vm, tr, cm, mappings, cpu, hook>>

\* what ubpf_translate does when translate returned -1 (lines 607-609, 616-619)
TranslateFailed(t, k, opcode) ==
    [t EXCEPT !.result = -1, !.errmsg = <<"Unknown instruction", k, opcode>>,
              !.returned = TRUE]

\* the end of an iteration: the default case returns -1 (lines 468-471),
\* any other case goes on with the next instruction
LoopStep(r) ==
    /\ st' = r.s
    /\ IF r.unknown
       THEN /\ tr' = TranslateFailed(tr, r.i, vm.insts[i + 1].opcode)
            /\ i' = r.i
            /\ pc' = IF tr.caller = "direct" THEN "idle" ELSE "translated"
       ELSE /\ i' = r.i + 1
            /\ pc' = "loop"
            /\ tr' = tr

\* lines 150-472: one iteration of the loop
translate_inst ==
    /\ pc = "loop"
    /\ i < vm.num_insts
    /\ LoopStep(TranslateInst(st, vm.insts, vm.num_insts,
                              vm.unwind_stack_extension_index, i))
    /\ UNCHANGED <<register_map, vm, cm, mappings, cpu, hook>>

\* lines 474-505: the loop is over
translate_epilogue ==
    /\ pc = "loop"
    /\ i >= vm.num_insts
    /\ st' = EmitDivByZeroHandler(EmitEpilogue(st))
    /\ pc' = "resolve"
    /\ UNCHANGED <<register_map, vm, i, tr, cm, mappings, cpu, hook>>

\* a return of 0 that leaves *size alone
TranslateSucceededSizeKept(t, s) ==
    [t EXCEPT !.result = 0, !.resolved = TRUE, !.returned = TRUE]

\* what ubpf_translate does when translate returned 0 (lines 611-619)
TranslateSucceeded(t, s) ==
    [t EXCEPT !.result = 0, !.size = s.offset, !.resolved = TRUE,
              !.returned = TRUE]

ubpf_translate_return ==
    /\ pc = "resolve"
    /\ st' = resolve_jumps(st)
    /\ tr' = TranslateSucceeded(tr, st)
    /\ pc' = IF tr.caller = "direct" THEN "idle" ELSE "translated"
    /\ UNCHANGED <<register_map, vm, i, cm, mappings, cpu, hook>>

(***************************************************************************)
(* ubpf_compile.                                                           *)
(***************************************************************************)
\* a ubpf_compile without the early return
NeverCompiled(v) == FALSE

\* lines 629-631: the early return of an already compiled VM
AlreadyCompiled(v) == v.jitted # 0

\* lines 663-668: the out label
CompileOut(c, v, maps) ==
    LET unmap == c.jitted # 0 /\ v.jitted = 0
        live == c.jitted \in 1..Len(maps) /\ maps[c.jitted].live
    IN  [cm |-> [c EXCEPT !.buffer = "freed", !.n_free = @ + 1,
                          !.n_munmap = IF unmap THEN @ + 1 ELSE @,
                          !.n_bad_munmap = IF unmap /\ ~live THEN @ + 1 ELSE @,
                          !.ret = v.jitted, !.returned = TRUE],
         maps |-> IF unmap /\ live
                  THEN [maps EXCEPT ![c.jitted].live = FALSE]
                  ELSE maps]

\* the first n bytes of the (zeroed) working buffer, as memcpy reads them
BufferBytes(s, n) == [k \in 1..n |-> IF k <= Len(s.buf) THEN s.buf[k] ELSE 0]

\* lines 622-643: entry, up to the call of ubpf_translate
ubpf_compile ==
    /\ pc = "idle"
    /\ cm.ncalls < MaxCompiles
    /\ IF AlreadyCompiled(vm)
       THEN /\ cm' = [cm EXCEPT !.ncalls = @ + 1, !.ret = vm.jitted,
                                !.returned = TRUE, !.jitted = 0,
                                !.buffer = "none"]
            /\ UNCHANGED <<st, tr, i, pc>>
       ELSE IF ~vm.loaded
       THEN /\ cm' = [cm EXCEPT !.ncalls = @ + 1, !.ret = 0, !.returned = TRUE,
                                !.jitted = 0, !.buffer = "none",
                                !.errmsg = <<"code has not been loaded into this VM">>]
            /\ UNCHANGED <<st, tr, i, pc>>
       ELSE /\ cm' = [cm EXCEPT !.ncalls = @ + 1, !.returned = FALSE,
                                !.jitted = 0, !.jitted_size = JitBufferSize,
                                !.buffer = "allocated", !.n_calloc = @ + 1,
                                !.n_translate = @ + 1, !.errmsg = <<>>]
            /\ st' = NewJitState(JitBufferSize, vm.num_insts)
            /\ tr' = [NoTranslate EXCEPT !.caller = "compile",
                                         !.size_in = JitBufferSize,
                                         !.size = JitBufferSize, !.result = -1]
            /\ i' = 0
            /\ pc' = "prologue"
    /\ UNCHANGED <<register_map, vm, mappings, cpu, hook>>

\* lines 643-651 and, on a failure, the out label
compile_mmap ==
    /\ pc = "translated"
    /\ tr.caller = "compile"
    /\ \/ /\ tr.result < 0
          /\ LET out == CompileOut([cm EXCEPT !.errmsg = tr.errmsg], vm, mappings)
             IN  cm' = out.cm /\ mappings' = out.maps
          /\ pc' = "idle"
       \/ /\ tr.result = 0
          /\ cm' = [cm EXCEPT !.jitted_size = tr.size, !.n_mmap = @ + 1,
                              !.jitted = Len(mappings) + 1]
          /\ mappings' = Append(mappings, [bytes |-> BufferBytes(st, tr.size),
                                           prot |-> "rw", live |-> TRUE])
          /\ pc' = "mprotect"
       \/ /\ tr.result = 0
          /\ LET out == CompileOut([cm EXCEPT !.jitted_size = tr.size,
                                              !.n_mmap = @ + 1,
                                              !.jitted = MAP_FAILED,
                                              !.errmsg = <<"mmap failed">>],
                                   vm, mappings)
             IN  cm' = out.cm /\ mappings' = out.maps
          /\ pc' = "idle"
    /\ tr' = [tr EXCEPT !.caller = IF pc' = "idle" THEN "none" ELSE @]
    /\ UNCHANGED <<register_map, vm, st, i, cpu, hook>>

\* lines 655-668
compile_mprotect ==
    /\ pc = "mprotect"
    /\ \/ LET v == [vm EXCEPT !.jitted = cm.jitted, !.jitted_size = cm.jitted_size]
              out == CompileOut([cm EXCEPT !.n_mprotect = @ + 1], v,
                                [mappings EXCEPT ![cm.jitted].prot = "rx"])
          IN  vm' = v /\ cm' = out.cm /\ mappings' = out.maps
       \/ LET out == CompileOut([cm EXCEPT !.n_mprotect = @ + 1,
                                           !.errmsg = <<"mprotect failed">>],
                                vm, mappings)
          IN  vm' = vm /\ cm' = out.cm /\ mappings' = out.maps
    /\ pc' = "idle"
    /\ tr' = [tr EXCEPT !.caller = "none"]
    /\ UNCHANGED <<register_map, st, i, cpu, hook>>

(***************************************************************************)
(* The generated function, run on the bytes of the executable mapping.     *)
(***************************************************************************)
\* the value of a 64-bit immediate given by its halves
Word64(lo, hi) ==
    IF (hi = 0 /\ lo >= 0) \/ (hi = -1 /\ lo < 0) THEN lo
    ELSE CHOOSE x \in {} : TRUE

Decode(bytes, rip) ==
    LET B(n) == IF rip + n + 1 <= Len(bytes) THEN bytes[rip + n + 1] ELSE 0
        hasRex == B(0) \in 64..79
        rex == IF hasRex THEN B(0) - 64 ELSE 0
        w == (rex \div 8) % 2
        rr == (rex \div 4) % 2
        bb == rex % 2
        p == IF hasRex THEN 1 ELSE 0
        opc == B(p)
        modrm == B(p + 1)
        reg == ((modrm \div 8) % 8) + 8 * rr
        sub == (modrm \div 8) % 8
        rm == (modrm % 8) + 8 * bb
        Imm32(n) == Dec32(B(n), B(n + 1), B(n + 2), B(n + 3))
        D(op, len, src, dst, imm) ==
            [op |-> op, len |-> len, w |-> w, src |-> src, dst |-> dst, imm |-> imm]
    IN
    CASE opc \in 80..87 -> D("push", p + 1, 0, (opc - 80) + 8 * bb, 0)
      [] opc \in 88..95 -> D("pop", p + 1, 0, (opc - 88) + 8 * bb, 0)
      [] opc = 195 -> D("ret", p + 1, 0, 0, 0)
      [] opc = 233 -> D("jmp", p + 5, 0, 0, Imm32(p + 1))
      [] opc = 232 -> D("call", p + 5, 0, 0, Imm32(p + 1))
      [] opc = 15 /\ B(p + 1) \in 128..143 ->
            D("jcc", p + 6, B(p + 1), 0, Imm32(p + 2))
      [] opc \in 184..191 /\ w = 1 ->
            D("movabs", p + 9, 0, (opc - 184) + 8 * bb,
              Word64(Imm32(p + 1), Imm32(p + 5)))
      [] opc = 137 /\ modrm >= 192 -> D("mov", p + 2, reg, rm, 0)
      [] opc = 133 /\ modrm >= 192 -> D("test", p + 2, reg, rm, 0)
      [] opc = 49 /\ modrm >= 192 -> D("xor", p + 2, reg, rm, 0)
      [] opc = 129 /\ modrm >= 192 /\ sub = 0 -> D("add", p + 6, 0, rm, Imm32(p + 2))
      [] opc = 129 /\ modrm >= 192 /\ sub = 5 -> D("sub", p + 6, 0, rm, Imm32(p + 2))
      [] opc = 129 /\ modrm >= 192 /\ sub = 7 -> D("cmp", p + 6, 0, rm, Imm32(p + 2))
      [] opc = 247 /\ modrm >= 192 /\ sub = 4 -> D("mul", p + 2, 0, rm, 0)
      [] opc = 247 /\ modrm >= 192 /\ sub = 6 -> D("div", p + 2, 0, rm, 0)
      [] OTHER -> D("bad", 1, 0, 0, 0)

\* the registers a called function may change
VolatileRegisters == {RAX, RCX, RDX, RSI, RDI, R8, R9, R10, R11}

Clobber(regs, rax) ==
    [r \in 0..15 |-> IF r = RAX THEN rax
                     ELSE IF r \in VolatileRegisters THEN 1 ELSE regs[r]]

MemSet(mem, a, v) == [x \in DOMAIN mem \cup {a} |-> IF x = a THEN v ELSE mem[x]]

Fault(c, why) == [c EXCEPT !.status = why]

\* one instruction; rv is what a called external function returns
Execute(c, d, rv) ==
    LET next == c.rip + d.len
        R == c.regs
        rsp == c.regs[RSP]
        Val(r) == IF d.w = 1 THEN R[r] ELSE Lo32(R[r])
    IN
    CASE d.op = "push" ->
            [c EXCEPT !.regs[RSP] = rsp - 8, !.mem = MemSet(@, rsp - 8, R[d.dst]),
                      !.rip = next]
      [] d.op = "pop" ->
            IF rsp \in DOMAIN c.mem
            THEN [c EXCEPT !.regs = [@ EXCEPT ![d.dst] = c.mem[rsp], ![RSP] = rsp + 8],
                           !.rip = next]
            ELSE Fault(c, "stack")
      [] d.op = "mov" -> [c EXCEPT !.regs[d.dst] = R[d.src], !.rip = next]
      [] d.op = "movabs" -> [c EXCEPT !.regs[d.dst] = d.imm, !.rip = next]
      [] d.op = "add" ->
            [c EXCEPT !.regs[d.dst] = R[d.dst] + d.imm,
                      !.zf = (R[d.dst] + d.imm = 0), !.rip = next]
      [] d.op = "sub" ->
            [c EXCEPT !.regs[d.dst] = R[d.dst] - d.imm,
                      !.zf = (R[d.dst] - d.imm = 0), !.rip = next]
      [] d.op = "cmp" -> [c EXCEPT !.zf = (R[d.dst] = d.imm), !.rip = next]
      [] d.op = "test" /\ d.src = d.dst ->
            [c EXCEPT !.zf = (Val(d.dst) = 0), !.rip = next]
      [] d.op = "xor" /\ d.src = d.dst ->
            [c EXCEPT !.regs[d.dst] = 0, !.zf = TRUE, !.rip = next]
      [] d.op = "mul" ->
            [c EXCEPT !.regs = [@ EXCEPT ![RAX] = Val(RAX) * Val(d.dst), ![RDX] = 0],
                      !.rip = next]
      [] d.op = "div" ->
            IF Val(d.dst) = 0 \/ Val(RDX) # 0 THEN Fault(c, "divide error")
            ELSE [c EXCEPT !.regs = [@ EXCEPT ![RAX] = Val(RAX) \div Val(d.dst),
                                              ![RDX] = Val(RAX) % Val(d.dst)],
                           !.rip = next]
      [] d.op = "jmp" -> [c EXCEPT !.rip = next + d.imm]
      [] d.op = "jcc" /\ d.src = 132 ->
            [c EXCEPT !.rip = IF c.zf THEN next + d.imm ELSE next]
      [] d.op = "jcc" /\ d.src = 133 ->
            [c EXCEPT !.rip = IF c.zf THEN next ELSE next + d.imm]
      [] d.op = "call" /\ next + d.imm = ErrorPrintfAddr ->
            [c EXCEPT !.regs = Clobber(R, rv), !.stderr_lines = @ + 1, !.rip = next]
      [] d.op = "call" /\ next + d.imm \in {ext_funcs(0), ext_funcs(1)} ->
            [c EXCEPT !.regs = Clobber(R, rv), !.rip = next]
      [] d.op = "ret" ->
            IF rsp \in DOMAIN c.mem /\ c.mem[rsp] = RetAddr
            THEN [c EXCEPT !.status = "done", !.result = R[RAX],
                           !.regs[RSP] = rsp + 8]
            ELSE Fault(c, "stack")
      [] OTHER -> Fault(c, "illegal instruction")

\* the eBPF instruction whose translation starts at buf offset loc: its index,
\* -1 for the epilogue, -2 for the division-by-zero handler, -3 for none
NextStart(k) == IF vm.insts[k + 1].opcode = OP.LDDW THEN k + 2 ELSE k + 1

EndLoc(k) == IF NextStart(k) >= vm.num_insts THEN st.exit_loc
             ELSE st.pc_locs[NextStart(k)]

Boundary(loc) ==
    IF loc = st.div_by_zero_loc THEN -2
    ELSE IF \E k \in InstStarts(vm.insts) : st.pc_locs[k] = loc /\ EndLoc(k) > loc
    THEN CHOOSE k \in InstStarts(vm.insts) : st.pc_locs[k] = loc /\ EndLoc(k) > loc
    ELSE IF loc = st.exit_loc THEN -1
    ELSE -3

\* bookkeeping for the properties: the instruction that just completed (done)
\* and the one that starts (cur), with the registers at its start
Track(c0, c1) ==
    IF c1.status = "running" /\ Boundary(c1.rip) # -3
    THEN [c1 EXCEPT !.done = c0.cur,
                    !.cur = [k |-> Boundary(c1.rip), loc |-> c1.rip, regs |-> c1.regs],
                    !.traps = IF Boundary(c1.rip) = -2 THEN @ + 1 ELSE @]
    ELSE c1

\* register values at entry: the registers of zero are 0
EntryRegs(zero) ==
    [r \in 0..15 |-> IF r = RSP THEN EntryRsp
                     ELSE IF r \in zero THEN 0 ELSE 20 + r]

EntryChoices ==
    {{}, {map_register(2)}, {map_register(2), map_register(3)}}

\* the caller calls vm->jitted(ctx, len)
jit_call ==
    /\ pc = "idle"
    /\ vm.jitted # 0
    /\ cpu.nruns < MaxRuns
    /\ \E zero \in EntryChoices :
          cpu' = [CpuOff EXCEPT !.status = "running", !.regs = EntryRegs(zero),
                                !.entry = EntryRegs(zero),
                                !.mem = MemSet(<<>>, EntryRsp, RetAddr),
                                !.nruns = cpu.nruns + 1]
    /\ pc' = "running"
    /\ UNCHANGED <<register_map, vm, st, i, tr, cm, mappings, hook>>

exec_step ==
    /\ pc = "running"
    /\ LET d == Decode(mappings[vm.jitted].bytes, cpu.rip)
       IN  /\ \E rv \in IF d.op = "call" THEN {0, 1} ELSE {0} :
                 cpu' = Track(cpu, Execute(cpu, d, rv))
           /\ pc' = IF cpu'.status = "running" THEN "running" ELSE "idle"
    /\ UNCHANGED <<register_map, vm, st, i, tr, cm, mappings, hook>>

(***************************************************************************)
(* ubpf_set_register_offset.                                               *)
(***************************************************************************)
\* C's remainder truncates toward zero
CRem(a, b) == IF a >= 0 THEN a % b ELSE 0 - ((0 - a) % b)

\* results of rand_r the shuffle is run with: ten draws a, a+b, a+2b, ...
RandSeqs == {[k \in 0..(REGISTER_MAP_SIZE - 2) |-> a + b * k] : a \in 0..2, b \in 0..2}

\* lines 110-115: tmp[(i+x) % 11]; an index outside tmp reads whatever is there
CycleMap(map, x, garbage) ==
    [k \in 1..REGISTER_MAP_SIZE |->
        LET idx == CRem((k - 1) + x, REGISTER_MAP_SIZE)
        IN  IF idx >= 0 THEN map[idx + 1] ELSE garbage[idx]]

OutsideIndices(x) ==
    {CRem(k + x, REGISTER_MAP_SIZE) : k \in 0..(REGISTER_MAP_SIZE - 1)}
        \cap (-REGISTER_MAP_SIZE .. -1)

\* lines 117-124
RECURSIVE ShuffleFrom(_, _, _)
ShuffleFrom(map, rnd, k) ==
    IF k >= REGISTER_MAP_SIZE - 1 THEN map
    ELSE LET j == k + (rnd[k] % (REGISTER_MAP_SIZE - k))
         IN  ShuffleFrom([map EXCEPT ![j + 1] = map[k + 1], ![k + 1] = map[j + 1]],
                         rnd, k + 1)

OffsetArguments == {-2, -1, 0, 1, 4, 10, 11, 12}

ubpf_set_register_offset(x) ==
    /\ hook.calls < MaxCalls
    /\ IF x < REGISTER_MAP_SIZE
       THEN \E garbage \in [OutsideIndices(x) -> 0..15] :
               /\ register_map' = CycleMap(register_map, x, garbage)
               /\ hook' = [calls |-> hook.calls + 1,
                           oob |-> hook.oob \/ OutsideIndices(x) # {}]
       ELSE \E rnd \in RandSeqs :
               /\ register_map' = ShuffleFrom(register_map, rnd, 0)
               /\ hook' = [hook EXCEPT !.calls = @ + 1]
    /\ UNCHANGED <<vm, pc, st, i, tr, cm, mappings, cpu>>

(***************************************************************************)
(* Specifications.                                                         *)
(***************************************************************************)
LoadedVm(p) ==
    [insts |-> p, num_insts |-> Len(p), loaded |-> TRUE, jitted |-> 0,
     jitted_size |-> 0, unwind_stack_extension_index |-> 0]

EmptyVm ==
    [insts |-> <<>>, num_insts |-> 0, loaded |-> FALSE, jitted |-> 0,
     jitted_size |-> 0, unwind_stack_extension_index |-> 0]

InitRest ==
    /\ pc = "idle"
    /\ st = NewJitState(0, 0)
    /\ i = 0
    /\ tr = NoTranslate
    /\ cm = NoCompile
    /\ mappings = <<>>
    /\ cpu = CpuOff
    /\ hook = NoHook

Init ==
    /\ register_map \in RegisterMaps
    /\ vm \in {LoadedVm(p) : p \in RunPrograms} \cup {EmptyVm}
    /\ InitRest

Next ==
    \/ ubpf_compile
    \/ translate_prologue
    \/ translate_inst
    \/ translate_epilogue
    \/ ubpf_translate_return
    \/ compile_mmap
    \/ compile_mprotect
    \/ jit_call
    \/ exec_step

Spec == Init /\ [][Next]_vars

InitTranslate ==
    /\ register_map \in RegisterMaps
    /\ vm \in {LoadedVm(p) : p \in TranslatePrograms}
    /\ InitRest

NextTranslate ==
    \/ \E size \in Capacities : ubpf_translate(size)
    \/ translate_prologue
    \/ translate_inst
    \/ translate_epilogue
    \/ ubpf_translate_return

SpecTranslate == InitTranslate /\ [][NextTranslate]_vars

InitRegMap ==
    /\ register_map = InitialRegisterMap
    /\ vm = EmptyVm
    /\ InitRest

NextRegMap == \E x \in OffsetArguments : ubpf_set_register_offset(x)

SpecRegMap == InitRegMap /\ [][NextRegMap]_vars

(***************************************************************************)
(* Properties of ubpf_translate (SpecTranslate).                           *)
(***************************************************************************)
KnownOpcodes == {OP[f] : f \in DOMAIN OP}

TranslateOk == tr.returned /\ tr.result = 0

\* the 32-bit field at buf[loc .. loc+4), when it lies in the written buffer
FieldAt(s, loc) == Dec32(s.buf[loc + 1], s.buf[loc + 2], s.buf[loc + 3], s.buf[loc + 4])

\* where the translation of the target of a jump begins
TargetStart(s, target_pc) ==
    IF target_pc = TARGET_PC_EXIT THEN s.exit_loc
    ELSE IF target_pc = TARGET_PC_DIV_BY_ZERO THEN s.div_by_zero_loc
    ELSE s.pc_locs[target_pc]

\* C1: after ubpf_translate returns 0, every recorded jump's 4-byte field in
\* buf holds target_loc - (offset_loc + 4), target_loc being exit_loc,
\* div_by_zero_loc or the offset where the translation of target_pc begins.
C1_JumpDisplacements ==
    TranslateOk =>
       /\ ~st.oob
       /\ \A n \in 1..Len(st.jumps) :
             /\ st.jumps[n].offset_loc + 4 <= Len(st.buf)
             /\ FieldAt(st, st.jumps[n].offset_loc)
                   = TargetStart(st, st.jumps[n].target_pc)
                        - (st.jumps[n].offset_loc + 4)

\* a call that returned 0 and resolved a jump whose field lies in the buffer
C1_Witness ==
    /\ TranslateOk
    /\ \E n \in 1..Len(st.jumps) :
          /\ st.jumps[n].target_pc >= 0
          /\ st.jumps[n].offset_loc + 4 <= Len(st.buf)
          /\ FieldAt(st, st.jumps[n].offset_loc)
                = st.pc_locs[st.jumps[n].target_pc] - (st.jumps[n].offset_loc + 4)

SingleSlotBeforeLast ==
    {k \in InstStarts(vm.insts) :
        k < vm.num_insts - 1 /\ vm.insts[k + 1].opcode # OP.LDDW}

\* the cases of the switch that emit nothing: LE, and BE of another width
\* than 16, 32 and 64 (lines 228-244)
EmitsNothing(inst) ==
    \/ inst.opcode = OP.LE
    \/ inst.opcode = OP.BE /\ inst.imm \notin {16, 32, 64}

RECURSIVE OffsetFrom(_, _)
OffsetFrom(s, k) ==
    IF k >= vm.num_insts THEN EmitDivByZeroHandler(EmitEpilogue(s)).offset
    ELSE CHOOSE n \in
            {IF r.unknown THEN r.s.offset ELSE OffsetFrom(r.s, r.i + 1) :
                r \in {TranslateInst(s, vm.insts, vm.num_insts,
                                     vm.unwind_stack_extension_index, k)}} : TRUE

RequiredSize ==
    CHOOSE n \in {OffsetFrom(s, 0) :
                    s \in {EmitPrologue(NewJitState(JitBufferSize, vm.num_insts))}} :
        TRUE

\* C5: when the native code of the program does not fit in the caller's
\* buffer, ubpf_translate returns -1 with an error reported, never 0.
C5_OverflowIsFatal ==
    (tr.returned /\ RequiredSize > tr.size_in) =>
        tr.result = -1 /\ tr.errmsg # <<>>

\* the first instruction with an unrecognised opcode, -1 if there is none
UnknownStarts == {k \in InstStarts(vm.insts) : vm.insts[k + 1].opcode \notin KnownOpcodes}

FirstUnknown ==
    IF UnknownStarts = {} THEN -1
    ELSE CHOOSE k \in UnknownStarts : \A m \in UnknownStarts : k <= m

\* C7: with an unrecognised opcode in the program ubpf_translate stops at the
\* first such instruction, returns -1 with *errmsg naming its PC and opcode,
\* resolves no jump and leaves *size at its entry value; otherwise it returns
\* 0 with *size set to the final offset.
C7_UnknownOpcodeOrSize ==
    tr.returned =>
       IF FirstUnknown >= 0
       THEN /\ tr.result = -1
            /\ tr.errmsg = <<"Unknown instruction", FirstUnknown,
                             vm.insts[FirstUnknown + 1].opcode>>
            /\ i = FirstUnknown
            /\ ~tr.resolved
            /\ \A n \in 1..Len(st.jumps) :
                  st.jumps[n].offset_loc + 4 <= Len(st.buf)
                     => FieldAt(st, st.jumps[n].offset_loc) = 0
            /\ tr.size = tr.size_in
       ELSE /\ tr.result = 0
            /\ tr.resolved
            /\ tr.size = st.offset

\* a call that stopped at an unknown opcode after translating a jump
C7_Witness ==
    /\ tr.returned
    /\ tr.result = -1
    /\ FirstUnknown = 1
    /\ Len(st.jumps) > 0
    /\ tr.size_in > st.offset

(***************************************************************************)
(* Properties of ubpf_compile and of the generated function (Spec).        *)
(***************************************************************************)
\* C4: once the VM holds a compiled function, a call of ubpf_compile returns
\* that same pointer and translates, allocates, maps and protects nothing,
\* leaving vm->jitted and vm->jitted_size as they were.
C4_CompileIdempotent ==
    [][(pc = "idle" /\ vm.jitted # 0 /\ cm'.ncalls = cm.ncalls + 1) =>
          /\ cm'.returned /\ cm'.ret = vm.jitted
          /\ vm' = vm
          /\ mappings' = mappings
          /\ pc' = "idle"
          /\ cm'.n_translate = cm.n_translate
          /\ cm'.n_calloc = cm.n_calloc
          /\ cm'.n_mmap = cm.n_mmap
          /\ cm'.n_mprotect = cm.n_mprotect
          /\ cm'.n_munmap = cm.n_munmap]_vars

\* a second call has returned on a VM the first call compiled
C4_Witness ==
    /\ cm.ncalls = 2
    /\ cm.returned
    /\ cm.ret = vm.jitted
    /\ vm.jitted # 0
    /\ cm.n_translate = 1
    /\ cm.n_mmap = 1

\* C6: a failed ubpf_compile returns NULL with *errmsg set, leaves vm->jitted
\* NULL and vm->jitted_size unchanged, frees the working buffer, unmaps once
\* every mapping it acquired and issues no unmap for a mapping it never had.
C6_FailureReleasesWhatItAcquired ==
    (cm.returned /\ cm.ret = 0) =>
       /\ cm.errmsg # <<>>
       /\ vm.jitted = 0 /\ vm.jitted_size = 0
       /\ cm.n_free = cm.n_calloc
       /\ \A m \in 1..Len(mappings) : ~mappings[m].live
       /\ cm.n_bad_munmap = 0
       /\ cm.n_munmap = Len(mappings)

\* the instruction that has just run to its end, and its operands at its start
DoneInst == vm.insts[cpu.done.k + 1]

AfterMulDivMod ==
    /\ cpu.status \in {"running", "done"}
    /\ cpu.done.k >= 0
    /\ DoneInst.opcode \in MulDivModOps

\* the eBPF operand: the immediate of an immediate form, the value of the src
\* register of a register form
EbpfOperand ==
    IF IsImmForm(DoneInst.opcode) THEN DoneInst.imm
    ELSE cpu.done.regs[map_register(DoneInst.src)]

\* C3: a DIV or MOD whose eBPF divisor (src register of a register form,
\* immediate of an immediate form) is zero goes to the division-by-zero
\* handler without executing the x86 DIV, and the function then returns -1
\* after one call of error_printf.
C3_ZeroDivisorTraps ==
    /\ cpu.status # "divide error"
    /\ (AfterMulDivMod /\ IsDivMod(DoneInst.opcode) /\ EbpfOperand = 0)
          => cpu.cur.k = -2
    /\ (cpu.status = "done" /\ cpu.traps > 0)
          => cpu.result = -1 /\ cpu.stderr_lines = 1

\* a register-form division by a zero register that trapped and returned
C3_Witness ==
    /\ cpu.status = "done"
    /\ cpu.traps = 1
    /\ cpu.result = -1
    /\ cpu.stderr_lines = 1

ExpectedResult ==
    LET a == cpu.done.regs[map_register(DoneInst.dst)]
    IN  IF AluOp(DoneInst.opcode) = AluOp(OP.MUL_IMM) THEN a * EbpfOperand
        ELSE IF AluOp(DoneInst.opcode) = AluOp(OP.DIV_IMM) THEN a \div EbpfOperand
        ELSE a % EbpfOperand

\* C9: on the non-trapping path of a MUL, DIV or MOD, dst receives dst*operand,
\* dst div operand or dst mod operand, the operand being the immediate for an
\* immediate form (imm = 0 included) and the src register for a register form.
C9_OperandByForm ==
    (AfterMulDivMod /\ cpu.cur.k # -2
        /\ ~(IsDivMod(DoneInst.opcode) /\ EbpfOperand = 0))
       => cpu.cur.regs[map_register(DoneInst.dst)] = ExpectedResult

\* rsp between two eBPF instructions: below the return address, the pushed
\* callee-saved registers and the eBPF stack area
FrameRsp ==
    EntryRsp - 8 * Len(platform_nonvolatile_registers) - UBPF_STACK_SIZE

\* C10: the host stack is balanced: at the start of every eBPF instruction,
\* of the epilogue and of the division-by-zero handler rsp is the frame's, so
\* every muldivmod has popped what it pushed and no branch to EXIT or
\* DIV_BY_ZERO leaves a push outstanding; a muldivmod restores RAX and RDX
\* when they are not dst; RET finds the return address, with rsp and the
\* callee-saved registers as at entry.
C10_StackBalanced ==
    /\ cpu.status \in {"off", "running", "done"}
    /\ (cpu.status = "running" /\ cpu.rip = cpu.cur.loc)
          => cpu.regs[RSP] = FrameRsp
    /\ (AfterMulDivMod /\ cpu.cur.k # -2) =>
          \A r \in {RAX, RDX} :
             map_register(DoneInst.dst) # r => cpu.cur.regs[r] = cpu.done.regs[r]
    /\ cpu.status = "done" =>
          /\ cpu.regs[RSP] = EntryRsp + 8
          /\ \A n \in 1..Len(platform_nonvolatile_registers) :
                cpu.regs[platform_nonvolatile_registers[n]]
                   = cpu.entry[platform_nonvolatile_registers[n]]

\* a run that returned after a muldivmod that pushed both RAX and RDX
C10_Witness ==
    /\ cpu.status = "done"
    /\ cpu.done.k >= 0
    /\ DoneInst.opcode \in MulDivModOps
    /\ map_register(DoneInst.dst) \notin {RAX, RDX}
    /\ cpu.regs[RSP] = EntryRsp + 8

(***************************************************************************)
(* Properties of ubpf_set_register_offset (SpecRegMap).                    *)
(***************************************************************************)
\* C8: after any calls of ubpf_set_register_offset, with any argument,
\* register_map is a permutation of its initial contents and no entry was
\* read from outside the table.
C8_RegisterMapBijection ==
    /\ {register_map[k] : k \in 1..REGISTER_MAP_SIZE}
          = {InitialRegisterMap[k] : k \in 1..REGISTER_MAP_SIZE}
    /\ ~hook.oob

\* the hook has both cycled and shuffled the table into another permutation
C8_Witness ==
    /\ hook.calls = 2
    /\ ~hook.oob
    /\ register_map # InitialRegisterMap
    /\ register_map # Cycle(InitialRegisterMap, 1)
    /\ {register_map[k] : k \in 1..REGISTER_MAP_SIZE}
          = {InitialRegisterMap[k] : k \in 1..REGISTER_MAP_SIZE}

(***************************************************************************)
(* The division-by-zero trap and the divisor (Spec).                       *)
(***************************************************************************)
\* the DIV or MOD instruction whose JE DIV_BY_ZERO has just been taken
TrappedAtDivMod ==
    /\ cpu.status \in {"running", "done"}
    /\ cpu.traps > 0
    /\ cpu.done.k >= 0
    /\ cpu.cur.k = -2
    /\ IsDivMod(DoneInst.opcode)

\* C11: the trap is taken only for a zero divisor: a DIV or MOD whose eBPF
\* divisor (the immediate of an immediate form, the src register of a
\* register form) is not zero never branches to the division-by-zero handler,
\* whatever the register named by the src field of an immediate form holds.
C11_TrapOnlyForZeroDivisor ==
    TrappedAtDivMod => EbpfOperand = 0

\* a register-form DIV or MOD trapped on its zero src register
C11_Witness ==
    /\ TrappedAtDivMod
    /\ ~IsImmForm(DoneInst.opcode)
    /\ EbpfOperand = 0

====
